---- MODULE Spec2Model ----
(***************************************************************************)
(* Markdown Viewer: the renderer's tab store (src/renderer/App.tsx) and    *)
(* the resources the main process builds for it (src/main/index.ts).       *)
(*                                                                         *)
(* A file path is the sequence of its segments (<<"docs","a.md">> is       *)
(* /docs/a.md); a URL is its host followed by the segments of its path.    *)
(* An optional field that is undefined is the empty sequence.              *)
(*                                                                         *)
(* The text of a link (href) is the sequence of its lexemes: a maximal run *)
(* of letters ("https", "notes", "md") or one other character (":", "/",   *)
(* ".", "#", "?", " "). Where links are followed, a path or URL segment is *)
(* the lexemes between two "/", and an absolute path starts with the empty *)
(* segment, as "/docs/a.md".split("/") does.                               *)
(***************************************************************************)
EXTENDS Integers, Sequences, FiniteSets, TLC

\* ---------------------------------------------------------------- bounds
\* number of resources the main process builds (one randomUUID each)
MaxIds == 3
\* number of files selected at once in the open-file dialog
MaxBatch == 2
\* number of resources built by following links of one opened document
MaxFollowed == 1
\* number of inbound events: command-line targets, second-instance, open-file
MaxInbound == 2
\* number of windows createWindow opens while the application runs
MaxWindows == 2
\* number of fetches of the renderer that are outstanding at once
MaxInflight == 2

\* ---------------------------------------------------------------- values
Undefined == <<>>
NoId == 0
NoStatus == "null"

FilePaths == { <<"docs", "a.md">>, <<"docs", "b.md">> }
Urls == { <<"example.com", "readme.md">>, <<"example.com">> }
Contents == { "v1", "v2" }
Messages == { "ENOENT: no such file or directory", "Failed to load" }

VARIABLES
  tabs,      \* App: useState<MarkdownResource[]>([])
  activeId,  \* App: useState<string | null>(null)
  status,    \* App: useState<string | null>(null)
  nextId,    \* the next value randomUUID() returns
  now,       \* Date.now()
  last,      \* the handler that ran last, with its inputs
  inflight,  \* renderer: the window.api calls awaited by handleLinkActivation
  rendererReady,     \* main: let rendererReady
  pendingResources,  \* main: const pendingResources
  loaders,           \* main: the deliverResource calls whose loader is pending
  argLoaders,        \* main: the pending loaders of parseArgTargets, each with its argument
  windows,           \* main: the BrowserWindows created so far (createWindow)
  windowOpen,        \* the window mainWindow names is open
  listening,         \* renderer: the listeners of the useEffect are registered
  readySent,         \* 'renderer-ready' is on its way to the main process
  ipc,               \* the messages of webContents.send on their way to the renderer
  published,         \* the ids of the resources handed to publishResource, in order
  delivered,         \* the ids of the resources the onResourceOpened listener got
  started            \* the loads begun so far: deliverResource calls, window.api calls

storeVars == <<tabs, activeId, status, nextId, now, last>>
linkVars == <<inflight>>
mainVars == <<rendererReady, pendingResources, loaders, argLoaders, windows, windowOpen,
              listening, readySent, ipc, published, delivered, started>>
vars == <<storeVars, linkVars, mainVars>>

\* ------------------------------------------------- main process: resources
Basename(p) == p[Len(p)]
Dirname(p) == SubSeq(p, 1, Len(p) - 1)

\* readMarkdownFile: the descriptor of a file that was read
readMarkdownFile(absolute, content, id, t) ==
  [ id |-> id, kind |-> "file", path |-> absolute, url |-> Undefined,
    finalUrl |-> Undefined, title |-> Basename(absolute), content |-> content,
    openedAt |-> t, basePath |-> Dirname(absolute), baseUrl |-> Undefined ]

\* fetchMarkdownUrl: the descriptor of a URL that answered; responseUrl is
\* response.url (the URL after redirects, or empty)
fetchMarkdownUrl(targetUrl, responseUrl, text, id, t) ==
  LET finalUrl == IF responseUrl # Undefined THEN responseUrl ELSE targetUrl
      title == IF Len(finalUrl) > 1 THEN finalUrl[Len(finalUrl)] ELSE finalUrl[1]
  IN [ id |-> id, kind |-> "url", path |-> Undefined, url |-> targetUrl,
       finalUrl |-> finalUrl, title |-> title, content |-> text,
       openedAt |-> t, basePath |-> Undefined, baseUrl |-> finalUrl ]

\* ------------------------------------------------------ renderer: the store
\* entry.finalUrl ?? entry.url
UrlOf(r) == IF r.finalUrl # Undefined THEN r.finalUrl ELSE r.url

\* mutant: url entries compared by the requested URL only
IdentityMatchesRequestedUrl(entry, resource) ==
  IF entry.kind # resource.kind THEN FALSE
  ELSE IF entry.kind = "file" THEN entry.path = resource.path
  ELSE entry.url = resource.url

\* mutant: url entries match when the final or the requested URLs agree
IdentityMatchesEitherUrl(entry, resource) ==
  IF entry.kind # resource.kind THEN FALSE
  ELSE IF entry.kind = "file" THEN entry.path = resource.path
  ELSE UrlOf(entry) = UrlOf(resource) \/ entry.url = resource.url

\* the predicate of findIndex in applyResource
IdentityMatches(entry, resource) ==
  IF entry.kind # resource.kind THEN FALSE
  ELSE IF entry.kind = "file" THEN entry.path = resource.path
  ELSE IF UrlOf(entry) # Undefined /\ UrlOf(resource) # Undefined
       THEN UrlOf(entry) = UrlOf(resource)
       ELSE FALSE

\* next.findIndex(...): the first matching position (1-based), 0 for -1
MatchIndex(prev, resource) ==
  LET hits == { i \in 1..Len(prev) : IdentityMatches(prev[i], resource) }
  IN IF hits = {} THEN 0 ELSE CHOOSE i \in hits : \A j \in hits : i <= j

\* mutant: the incoming resource is appended whether or not it matches
UpsertTabsAppendsAlways(prev, resource) == Append(prev, resource)

\* mutant: a match leaves the entry as it was
UpsertTabsKeepsEntry(prev, resource) ==
  IF MatchIndex(prev, resource) > 0 THEN prev ELSE Append(prev, resource)

\* mutant: a match is overwritten by the incoming resource, id included
UpsertTabsIncomingId(prev, resource) ==
  LET matchIndex == MatchIndex(prev, resource)
  IN IF matchIndex > 0
     THEN [prev EXCEPT ![matchIndex] = resource]
     ELSE Append(prev, resource)

\* mutant: a new entry is put first (unshift for push)
UpsertTabsUnshift(prev, resource) ==
  LET matchIndex == MatchIndex(prev, resource)
  IN IF matchIndex > 0
     THEN [prev EXCEPT ![matchIndex] = [resource EXCEPT !.id = prev[matchIndex].id]]
     ELSE << resource >> \o prev

\* the updater applyResource hands to setTabs
UpsertTabs(prev, resource) ==
  LET matchIndex == MatchIndex(prev, resource)
  IN IF matchIndex > 0
     THEN [prev EXCEPT ![matchIndex] = [resource EXCEPT !.id = prev[matchIndex].id]]
     ELSE Append(prev, resource)

\* the value of resolvedId when applyResource calls setActiveId. The updater
\* assigns it; React runs an updater either at once (the component has no
\* update pending) or at the next render, after setActiveId was called.
ResolvedId(prev, resource, eager) ==
  LET matchIndex == MatchIndex(prev, resource)
  IN IF eager /\ matchIndex > 0 THEN prev[matchIndex].id ELSE resource.id

\* applyResource on the store st = [tabs, activeId, status]
applyResource(st, resource, eager) ==
  [ tabs |-> UpsertTabs(st.tabs, resource),
    activeId |-> ResolvedId(st.tabs, resource, eager),
    status |-> NoStatus ]

\* addResource: list.forEach((item) => applyResource(item))
RECURSIVE addResource(_, _, _)
addResource(st, list, eagers) ==
  IF list = <<>> THEN st
  ELSE addResource(applyResource(st, Head(list), Head(eagers)), Tail(list), Tail(eagers))

Store == [tabs |-> tabs, activeId |-> activeId, status |-> status]

TabIds(ts) == { ts[i].id : i \in 1..Len(ts) }

\* prev.findIndex((tab) => tab.id === id): 1-based, 0 for -1
IndexOfId(prev, id) ==
  LET hits == { i \in 1..Len(prev) : prev[i].id = id }
  IN IF hits = {} THEN 0 ELSE CHOOSE i \in hits : \A j \in hits : i <= j

\* closeTab: prev.filter((tab) => tab.id !== id)
CloseTabs(prev, id) == SelectSeq(prev, LAMBDA tab : tab.id # id)

\* mutant: the entry before the closed one is preferred
NeighbourPreviousFirst(next, i) ==
  IF i - 1 >= 1 /\ i - 1 <= Len(next) THEN next[i - 1].id
  ELSE IF i <= Len(next) THEN next[i].id
  ELSE NoId

\* closeTab: next[index] ?? next[index - 1] ?? next[0] ?? null, as an id;
\* i is the position (1-based) the closed entry had
Neighbour(next, i) ==
  IF i <= Len(next) THEN next[i].id
  ELSE IF i - 1 >= 1 /\ i - 1 <= Len(next) THEN next[i - 1].id
  ELSE IF Len(next) >= 1 THEN next[1].id
  ELSE NoId

\* closeTab: the value of fallback once the setTabs updater has run
Fallback(prev, id) ==
  LET index == IndexOfId(prev, id)
  IN IF index = 0 THEN NoId ELSE Neighbour(CloseTabs(prev, id), index)

\* mutant: the fallback is selected whichever tab was closed
ActiveAfterCloseAlways(prev, current, id) ==
  IF IndexOfId(prev, id) > 0 THEN Fallback(prev, id) ELSE current

\* closeTab: the updater handed to setActiveId
ActiveAfterClose(prev, current, id) ==
  IF current = id THEN Fallback(prev, id) ELSE current

\* ------------------------------------------------------------------ Init
Init ==
  /\ tabs = <<>>
  /\ activeId = NoId
  /\ status = NoStatus
  /\ nextId = 1
  /\ now = 1
  /\ last = [op |-> "init"]
  /\ inflight = <<>>
  /\ rendererReady = TRUE
  /\ pendingResources = <<>>
  /\ loaders = 0
  /\ argLoaders = <<>>
  /\ windows = 1
  /\ windowOpen = TRUE
  /\ listening = TRUE
  /\ readySent = FALSE
  /\ ipc = <<>>
  /\ published = <<>>
  /\ delivered = <<>>
  /\ started = 0

\* --------------------------------------------------------------- actions
\* the store after addResource(list), and the bookkeeping of the run
Added(list, eagers) ==
  LET st == addResource(Store, list, eagers)
  IN /\ tabs' = st.tabs
     /\ activeId' = st.activeId
     /\ status' = st.status
     /\ nextId' = nextId + Len(list)
     /\ now' = now + Len(list)
     /\ last' = [op |-> "addResource", resources |-> list]

FailedKeepsShown(message) ==
  /\ status' = IF status = NoStatus THEN message ELSE status
  /\ last' = [op |-> "error", message |-> message]
  /\ UNCHANGED <<tabs, activeId, nextId, now>>
FailedDropsTabs(message) ==
  /\ status' = message
  /\ tabs' = <<>>
  /\ activeId' = NoId
  /\ last' = [op |-> "error", message |-> message]
  /\ UNCHANGED <<nextId, now>>
Failed(message) ==
  /\ status' = message
  /\ last' = [op |-> "error", message |-> message]
  /\ UNCHANGED <<tabs, activeId, nextId, now>>

\* the files of one dialog selection: distinct paths, in selection order
Selections ==
  { s \in UNION { [1..n -> FilePaths] : n \in 1..MaxBatch } :
      \A i, j \in 1..Len(s) : i # j => s[i] # s[j] }

\* handleOpenFile: the dialog's files were all read (Promise.all resolved)
OpenFileDialog ==
  \E sel \in Selections :
    \E cs \in [1..Len(sel) -> Contents], eagers \in [1..Len(sel) -> BOOLEAN] :
      /\ nextId + Len(sel) - 1 <= MaxIds
      /\ Added([i \in 1..Len(sel) |->
                  readMarkdownFile(sel[i], cs[i], nextId + i - 1, now + i - 1)],
               eagers)
      /\ UNCHANGED <<linkVars, mainVars>>

\* handleOpenFile: reading one of the files failed (Promise.all rejected)
OpenFileDialogFails ==
  \E m \in Messages : Failed(m) /\ UNCHANGED <<linkVars, mainVars>>

\* handleUrlSubmit: openUrl resolved
UrlSubmit ==
  \E u \in Urls, ru \in Urls \cup {Undefined}, c \in Contents, eager \in BOOLEAN :
    /\ nextId <= MaxIds
    /\ Added(<< fetchMarkdownUrl(u, ru, c, nextId, now) >>, << eager >>)
    /\ UNCHANGED <<linkVars, mainVars>>

\* handleUrlSubmit: openUrl rejected
UrlSubmitFails ==
  \E m \in Messages : Failed(m) /\ UNCHANGED <<linkVars, mainVars>>

\* the resources deliverResource publishes: a file read or a URL fetched
Published(id, t) ==
  { readMarkdownFile(p, c, id, t) : p \in FilePaths, c \in Contents }
    \cup { fetchMarkdownUrl(u, ru, c, id, t) :
              u \in Urls, ru \in Urls \cup {Undefined}, c \in Contents }

\* onResourceOpened: (resource) => addResource(resource)
ResourceOpened ==
  \E r \in Published(nextId, now), eager \in BOOLEAN :
    /\ nextId <= MaxIds
    /\ Added(<< r >>, << eager >>)
    /\ UNCHANGED <<linkVars, mainVars>>

\* onResourceError: (message) => setStatus(message)
ResourceError ==
  \E m \in Messages : Failed(m) /\ UNCHANGED <<linkVars, mainVars>>

\* the close control of a tab, or closeTab with an id issued earlier
Close ==
  \E id \in 1..(nextId - 1) :
    /\ tabs' = IF IndexOfId(tabs, id) = 0 THEN tabs ELSE CloseTabs(tabs, id)
    /\ activeId' = ActiveAfterClose(tabs, activeId, id)
    /\ last' = [op |-> "close", id |-> id, wasActive |-> (activeId = id),
                 index |-> IndexOfId(tabs, id)]
    /\ UNCHANGED <<status, nextId, now, linkVars, mainVars>>

\* mutant: setActiveId with the id of a tab that may have been closed
SetActiveAnyIssuedId ==
  \E id \in 1..(nextId - 1) :
    /\ activeId' = id
    /\ last' = [op |-> "setActive", id |-> id]
    /\ UNCHANGED <<tabs, status, nextId, now, linkVars, mainVars>>

\* the tab button of an entry of the tab strip: setActiveId(tab.id)
SetActive ==
  \E i \in 1..Len(tabs) :
    /\ activeId' = tabs[i].id
    /\ last' = [op |-> "setActive", id |-> tabs[i].id]
    /\ UNCHANGED <<tabs, status, nextId, now, linkVars, mainVars>>

\* the Dismiss button of the status banner: setStatus(null)
Dismiss ==
  /\ status # NoStatus
  /\ status' = NoStatus
  /\ last' = [op |-> "dismiss"]
  /\ UNCHANGED <<tabs, activeId, nextId, now, linkVars, mainVars>>

Next ==
  \/ OpenFileDialog
  \/ OpenFileDialogFails
  \/ UrlSubmit
  \/ UrlSubmitFails
  \/ ResourceOpened
  \/ ResourceError
  \/ Close
  \/ SetActive
  \/ Dismiss

Spec == Init /\ [][Next]_vars

\* ======================================================= following links
\* ---------------------------------------------------------- text of hrefs
\* the lexemes that are runs of letters
LetterRuns ==
  { "http", "https", "HTTPS", "mailto", "ftp", "ms", "settings", "example",
    "h", "d", "r", "a", "x", "y", "p", "f", "intro", "notes", "img", "docs",
    "md", "MD", "png" }

\* toLowerCase of a lexeme
Lower(a) ==
  CASE a = "HTTPS" -> "https"
    [] a = "MD" -> "md"
    [] OTHER -> a

\* const markdownExtensions, each without its leading "."
markdownExtensions == { "md", "markdown", "mdown", "mkdn", "mkd", "mdx" }

\* the hrefs of the links of a rendered document
Hrefs ==
  { <<>>,
    << " " >>,
    << "#", "intro" >>,
    << " ", "#", "intro" >>,
    << "https", ":", "/", "/", "h", "/", "a", ".", "md" >>,
    << " ", "https", ":", "/", "/", "h", "/", "a", ".", "md", " " >>,
    << "https", ":", "/", "/", "h", "/", "a", ".", "md", "?", "x", "#", "y" >>,
    << "https", ":", "/", "/", "h", "/", "img", ".", "png" >>,
    << "https", ":", "/", "/", "h", "/", "p", "?", "f", "=", "a", ".", "md" >>,
    << "https", ":", "/", "/", "example", ".", "md" >>,
    << "HTTPS", ":", "/", "/", "h", "/", "a", ".", "MD" >>,
    << "/", "/", "h", "/", "a", ".", "md" >>,
    << "/", "/", "h", "/", "img", ".", "png" >>,
    << "mailto", ":", "x" >>,
    << "ftp", ":", "/", "/", "h", "/", "a", ".", "md" >>,
    << "ms", "-", "settings", ":", "a", ".", "md" >>,
    << "img", ".", "png" >>,
    << ".", ".", "/", "notes", ".", "md" >>,
    << "notes", ".", "md", "#", "intro" >>,
    << "notes", ".", "md" >> }

RECURSIVE TrimStart(_)
TrimStart(s) == IF s # <<>> /\ Head(s) = " " THEN TrimStart(Tail(s)) ELSE s

RECURSIVE TrimEnd(_)
TrimEnd(s) ==
  IF s # <<>> /\ s[Len(s)] = " " THEN TrimEnd(SubSeq(s, 1, Len(s) - 1)) ELSE s

\* href.trim()
Trim(s) == TrimEnd(TrimStart(s))

\* s.split(sep)[0]
BeforeFirst(s, sep) ==
  LET hits == { i \in 1..Len(s) : s[i] = sep }
  IN IF hits = {} THEN s
     ELSE SubSeq(s, 1, (CHOOSE i \in hits : \A j \in hits : i <= j) - 1)

\* s.split(sep)
RECURSIVE SplitOn(_, _)
SplitOn(s, sep) ==
  LET first == BeforeFirst(s, sep)
  IN IF Len(first) = Len(s) THEN << s >>
     ELSE << first >> \o SplitOn(SubSeq(s, Len(first) + 2, Len(s)), sep)

\* isMarkdownLink: the text before "#" and "?" ends, in lower case, in an
\* extension of markdownExtensions
isMarkdownLink(href) ==
  LET sanitized == BeforeFirst(BeforeFirst(href, "#"), "?")
      n == Len(sanitized)
  IN /\ n >= 2
     /\ sanitized[n - 1] = "."
     /\ Lower(sanitized[n]) \in markdownExtensions

\* /^https?:\/\//i
IsHttpUrl(s) ==
  /\ Len(s) >= 4
  /\ Lower(s[1]) \in { "http", "https" }
  /\ s[2] = ":" /\ s[3] = "/" /\ s[4] = "/"

\* /^(https?:)?\/\//i
IsWebUrl(s) ==
  \/ IsHttpUrl(s)
  \/ Len(s) >= 2 /\ s[1] = "/" /\ s[2] = "/"

\* trimmed.startsWith('http'): the comparison is case-sensitive
StartsWithHttp(s) == s # <<>> /\ s[1] \in { "http", "https" }

\* /^[a-zA-Z]+:/i
HasSchemePrefix(s) == Len(s) >= 2 /\ s[1] \in LetterRuns /\ s[2] = ":"

\* ------------------------------------------------ resolving a reference
\* the segments of a relative reference applied to a directory; dir[1] is
\* the root (of a path) or the host (of a URL) and is never left
RECURSIVE Walk(_, _)
Walk(dir, segs) ==
  IF segs = <<>> THEN dir
  ELSE LET g == Head(segs)
           to == IF g = <<>> \/ g = << "." >> THEN dir
                 ELSE IF g = << ".", "." >>
                      THEN IF Len(dir) > 1 THEN SubSeq(dir, 1, Len(dir) - 1) ELSE dir
                      ELSE Append(dir, g)
       IN Walk(to, Tail(segs))

\* path.resolve(base, href): base is an absolute directory
pathResolveJoined(base, href) == base \o SplitOn(href, "/")
pathResolve(base, href) ==
  IF href # <<>> /\ href[1] = "/"
  THEN Walk(<< base[1] >>, SplitOn(href, "/"))
  ELSE Walk(base, SplitOn(href, "/"))

\* new URL(href, base) for a relative href with a path: the last segment of
\* the base is replaced
ResolveUrl(base, href) ==
  IF href # <<>> /\ href[1] = "/"
  THEN Walk(<< base[1] >>, SplitOn(href, "/"))
  ELSE Walk(IF Len(base) > 1 THEN SubSeq(base, 1, Len(base) - 1) ELSE base,
            SplitOn(href, "/"))

\* the URL a fetch names, parsed: its host and the segments of its path (the
\* scheme is not kept)
ParseUrl(text) == SplitOn(SubSeq(text, 5, Len(text)), "/")

\* ------------------------------------------------------- the classifier
NoCall == [api |-> "none"]
NoBaseMessage == "Unable to resolve markdown reference without a base path."
OnlyHttpMessage == "Only http(s) urls are supported"

\* const activeTab = tabs.find((tab) => tab.id === activeId) ?? tabs[0] ?? null
HasActiveTab == tabs # <<>>
ActiveTab ==
  IF IndexOfId(tabs, activeId) > 0 THEN tabs[IndexOfId(tabs, activeId)] ELSE tabs[1]

\* activeTab.baseUrl ?? activeTab.finalUrl ?? activeTab.url
UrlBase(tab) ==
  IF tab.baseUrl # Undefined THEN tab.baseUrl
  ELSE IF tab.finalUrl # Undefined THEN tab.finalUrl
  ELSE tab.url

\* what handleLinkActivation decides up to its first await. category is
\* "noop" (return false), "fetch" (openUrl or openReference is called),
\* "external" (openExternal is called) or "error" (setStatus, no call);
\* handled is the value it returns.
Noop == [category |-> "noop", handled |-> FALSE, call |-> NoCall]
OpenExternal(url) ==
  [category |-> "external", handled |-> TRUE,
   call |-> [api |-> "openExternal", url |-> url]]

\* !trimmed || trimmed.startsWith('#')
IsAnchorEmptyOnly(trimmed) == trimmed = <<>>
IsAnchor(trimmed) == trimmed = <<>> \/ trimmed[1] = "#"

\* trimmed.startsWith('http') ? trimmed : `https:${trimmed}`
AbsoluteUrl(trimmed) ==
  IF StartsWithHttp(trimmed) THEN trimmed ELSE << "https", ":" >> \o trimmed

\* the branch of an absolute web URL
WebLink(trimmed) ==
  IF isMarkdownLink(AbsoluteUrl(trimmed))
  THEN [category |-> "fetch", handled |-> TRUE,
        call |-> [api |-> "openUrl", url |-> AbsoluteUrl(trimmed)]]
  ELSE OpenExternal(AbsoluteUrl(trimmed))

\* the branch of a relative href that is no markdown link
RelativeOtherAnyKind(tab, trimmed) ==
  IF tab.kind = "url" /\ UrlBase(tab) # Undefined
  THEN OpenExternal(ResolveUrl(UrlBase(tab), trimmed))
  ELSE IF tab.kind = "file" /\ tab.basePath # Undefined
  THEN OpenExternal(pathResolve(tab.basePath, trimmed))
  ELSE Noop
RelativeOther(tab, trimmed) ==
  IF tab.kind = "url" /\ UrlBase(tab) # Undefined
  THEN OpenExternal(ResolveUrl(UrlBase(tab), trimmed))
  ELSE Noop

\* the base of a markdown reference
ReferenceBaseOrLocation(tab) ==
  IF tab.kind = "file"
  THEN IF tab.basePath # Undefined THEN tab.basePath ELSE tab.path
  ELSE UrlBase(tab)
ReferenceBase(tab) == IF tab.kind = "file" THEN tab.basePath ELSE UrlBase(tab)

\* the branch of a markdown reference
OpenReference(tab, trimmed) ==
  [category |-> "fetch", handled |-> TRUE,
   call |-> [api |-> "openReference", href |-> trimmed,
             origin |-> tab.kind, base |-> ReferenceBase(tab)]]
RelativeMarkdownNoBaseCheck(tab, trimmed) == OpenReference(tab, trimmed)
RelativeMarkdown(tab, trimmed) ==
  IF ReferenceBase(tab) = Undefined
  THEN [category |-> "error", handled |-> TRUE, call |-> NoCall]
  ELSE OpenReference(tab, trimmed)

\* handleLinkActivation(href) with the document tab active
handleLinkActivation(tab, href) ==
  LET trimmed == Trim(href)
  IN IF IsAnchor(trimmed) THEN Noop
     ELSE IF IsWebUrl(trimmed) THEN WebLink(trimmed)
     ELSE IF HasSchemePrefix(trimmed) THEN OpenExternal(trimmed)
     ELSE IF ~isMarkdownLink(trimmed) THEN RelativeOther(tab, trimmed)
     ELSE RelativeMarkdown(tab, trimmed)

\* the onClick of a rendered link: an empty href or one that starts with "#"
\* is left to the browser, any other is handed to handleLinkActivation
LinkClicked(href) ==
  IF href = <<>> \/ href[1] = "#" \/ ~HasActiveTab
  THEN Noop
  ELSE handleLinkActivation(ActiveTab, href)

\* --------------------------------------------------- documents with links
LinkFilePaths == { << <<>>, << "docs" >>, << "a", ".", "md" >> >> }
LinkUrls == { << << "h" >>, << "d" >>, << "r", ".", "md" >> >> }
\* the text the documents of link activations hold
LinkContents == { "v1" }

\* the documents the main process publishes: a file read, a URL fetched
LinkPublished(id, t) ==
  { readMarkdownFile(p, c, id, t) : p \in LinkFilePaths, c \in LinkContents }
    \cup { fetchMarkdownUrl(u, Undefined, c, id, t) : u \in LinkUrls, c \in LinkContents }

\* documents as the type MarkdownResource admits them, without the optional
\* basePath, baseUrl, finalUrl and url
BareResources(id, t) ==
  { [readMarkdownFile(p, "v1", id, t) EXCEPT !.basePath = Undefined] :
      p \in LinkFilePaths }
    \cup { [fetchMarkdownUrl(u, Undefined, "v1", id, t)
              EXCEPT !.baseUrl = Undefined, !.finalUrl = Undefined, !.url = Undefined] :
             u \in LinkUrls }

\* onResourceOpened: a document whose links can be followed
LinkResourceOpened ==
  \E r \in LinkPublished(nextId, now) \cup BareResources(nextId, now),
     eager \in BOOLEAN :
    /\ nextId = 1
    /\ Added(<< r >>, << eager >>)
    /\ UNCHANGED <<linkVars, mainVars>>

\* a click on a link of the rendered document: handleClick of the a
\* component and handleLinkActivation up to its await. Here a link is
\* activated once the call of the previous activation has settled.
LinkActivation ==
  \E href \in Hrefs :
    LET d == LinkClicked(href)
    IN /\ inflight = <<>>
       /\ inflight' = IF d.call # NoCall THEN Append(inflight, d.call) ELSE inflight
       /\ UNCHANGED mainVars
       /\ status' = IF d.category = "error" THEN NoBaseMessage ELSE status
       /\ last' = [ op |-> "link", href |-> href, category |-> d.category,
                    handled |-> d.handled, call |-> d.call,
                    hadTab |-> HasActiveTab,
                    kind |-> IF HasActiveTab THEN ActiveTab.kind ELSE "none" ]
       /\ UNCHANGED <<tabs, activeId, nextId, now>>

RemoveAt(q, i) == SubSeq(q, 1, i - 1) \o SubSeq(q, i + 1, Len(q))

\* new URL(href, base) of an href that starts with a scheme (a letter, then
\* letters, "+", "-" and "." up to a ":") is that absolute URL, whatever
\* the base; fetch answers http(s) only
SchemeLength(s) ==
  IF s = <<>> \/ s[1] \notin LetterRuns THEN 0
  ELSE LET colons == { i \in 1..Len(s) : s[i] = ":" }
           first == CHOOSE i \in colons : \A j \in colons : i <= j
       IN IF colons # {}
             /\ \A k \in 1..(first - 1) : s[k] \in LetterRuns \cup { "+", "-", "." }
          THEN first - 1
          ELSE 0
HasUrlScheme(s) == SchemeLength(s) > 0

\* the text before the fragment: response.url has no fragment
StripFragment(text) == BeforeFirst(text, "#")

\* ipcMain.handle('resource:open-url') and ('resource:open-reference'): the
\* resources the call of inflight can resolve with
Fetched(call, id, t) ==
  IF call.api = "openUrl"
  THEN IF IsHttpUrl(call.url)
       THEN { fetchMarkdownUrl(ParseUrl(call.url), ParseUrl(StripFragment(call.url)),
                               c, id, t) : c \in LinkContents }
       ELSE {}
  ELSE IF call.origin = "file"
  THEN { readMarkdownFile(pathResolve(call.base, call.href), c, id, t) : c \in LinkContents }
  ELSE IF HasUrlScheme(call.href)
  THEN {}
  ELSE { fetchMarkdownUrl(ResolveUrl(call.base, call.href),
                          ResolveUrl(call.base, StripFragment(call.href)),
                          c, id, t) : c \in LinkContents }

\* the messages the call of inflight can reject with
Rejections(call) ==
  IF call.api = "openUrl" /\ ~IsHttpUrl(call.url) THEN { OnlyHttpMessage } ELSE { "Failed to load" }

\* handleLinkActivation after await openUrl / openReference: addResource
LinkFetchResolves ==
  \E i \in 1..Len(inflight) :
    /\ inflight[i].api \in { "openUrl", "openReference" }
    /\ nextId <= 1 + MaxFollowed
    /\ \E r \in Fetched(inflight[i], nextId, now), eager \in BOOLEAN :
         Added(<< r >>, << eager >>)
    /\ inflight' = RemoveAt(inflight, i)
    /\ UNCHANGED mainVars

\* handleLinkActivation, catch: setStatus(message)
LinkFetchRejects ==
  \E i \in 1..Len(inflight) :
    /\ inflight[i].api \in { "openUrl", "openReference" }
    /\ \E m \in Rejections(inflight[i]) : Failed(m)
    /\ inflight' = RemoveAt(inflight, i)
    /\ UNCHANGED mainVars

\* await window.api.openExternal(...) resolved: nothing is set
ExternalOpened ==
  \E i \in 1..Len(inflight) :
    /\ inflight[i].api = "openExternal"
    /\ inflight' = RemoveAt(inflight, i)
    /\ UNCHANGED mainVars
    /\ last' = [op |-> "externalOpened", url |-> inflight[i].url]
    /\ UNCHANGED <<tabs, activeId, status, nextId, now>>

\* openExternal rejected: the catch of handleClick sets the message
ExternalOpenFails ==
  \E i \in 1..Len(inflight) :
    /\ inflight[i].api = "openExternal"
    /\ Failed("Failed to load")
    /\ inflight' = RemoveAt(inflight, i)
    /\ UNCHANGED mainVars

NextLink ==
  \/ LinkResourceOpened
  \/ LinkActivation
  \/ LinkFetchResolves
  \/ LinkFetchRejects
  \/ ExternalOpened
  \/ ExternalOpenFails
  \/ OpenFileDialogFails
  \/ UrlSubmitFails
  \/ ResourceError
  \/ Close
  \/ SetActive
  \/ Dismiss

SpecLink == Init /\ [][NextLink]_vars

\* --------------------------------------------- renderer: concurrent fetches
\* what a fetch can be asked for: a file (openFileDialog, openReference) or
\* a URL (openUrl, openReference)
FetchTargets ==
  { [kind |-> "file", target |-> p] : p \in FilePaths }
    \cup { [kind |-> "url", target |-> u] : u \in Urls }

\* the resource a fetch resolves with; content is what the main process read
FetchedResource(call, id, t) ==
  IF call.kind = "file"
  THEN readMarkdownFile(call.target, call.content, id, t)
  ELSE fetchMarkdownUrl(call.target, Undefined, call.content, id, t)

\* handleUrlSubmit, handleLinkActivation: await window.api.openUrl(...) /
\* openReference(...) begins; nothing waits for the fetches begun before
FetchStarted ==
  \E f \in FetchTargets, c \in Contents :
    /\ Len(inflight) < MaxInflight
    /\ started < MaxIds
    /\ started' = started + 1
    /\ inflight' = Append(inflight, [api |-> "fetch", kind |-> f.kind, target |-> f.target,
                                     content |-> c, order |-> started + 1])
    /\ last' = [op |-> "fetchStarted", order |-> started + 1]
    /\ UNCHANGED <<tabs, activeId, status, nextId, now, rendererReady, pendingResources,
                   loaders, argLoaders, windows, windowOpen, listening, readySent, ipc, published,
                   delivered>>

\* the await of one outstanding fetch resolves: addResource(resource)
FetchResolves ==
  \E i \in 1..Len(inflight), eager \in BOOLEAN :
    LET r == FetchedResource(inflight[i], nextId, now)
        st == addResource(Store, << r >>, << eager >>)
    IN /\ tabs' = st.tabs
       /\ activeId' = st.activeId
       /\ status' = st.status
       /\ nextId' = nextId + 1
       /\ now' = now + 1
       /\ inflight' = RemoveAt(inflight, i)
       /\ last' = [op |-> "addResource", resources |-> << r >>,
                   order |-> inflight[i].order]
       /\ UNCHANGED mainVars

\* the await of one outstanding fetch rejects: setStatus(message)
FetchRejects ==
  \E i \in 1..Len(inflight), m \in Messages :
    /\ status' = m
    /\ inflight' = RemoveAt(inflight, i)
    /\ last' = [op |-> "error", message |-> m, order |-> inflight[i].order]
    /\ UNCHANGED <<tabs, activeId, nextId, now, mainVars>>

NextFetch ==
  \/ FetchStarted
  \/ FetchResolves
  \/ FetchRejects
  \/ Close
  \/ SetActive
  \/ Dismiss

SpecFetch == Init /\ [][NextFetch]_vars

\* ------------------------------------------- main process: inbound events
\* the resources an inbound event can load
InboundResources(id, t) ==
  { readMarkdownFile(p, "v1", id, t) : p \in FilePaths }
    \cup { fetchMarkdownUrl(u, Undefined, "v1", id, t) : u \in Urls }

\* webContents.send('resource-opened', resource) and ('resource-error', message)
ResourceOpenedMessage(resource) ==
  [channel |-> "resource-opened", resource |-> resource, message |-> NoStatus]
ResourceErrorMessage(message) ==
  [channel |-> "resource-error", resource |-> [id |-> NoId], message |-> message]

\* app.whenReady().then(...): createWindow has made the first window, its
\* page is loading, the renderer has registered nothing yet
InitMain ==
  /\ tabs = <<>>
  /\ activeId = NoId
  /\ status = NoStatus
  /\ nextId = 1
  /\ now = 1
  /\ last = [op |-> "init"]
  /\ inflight = <<>>
  /\ rendererReady = FALSE
  /\ pendingResources = <<>>
  /\ loaders = 0
  /\ argLoaders = <<>>
  /\ windows = 1
  /\ windowOpen = TRUE
  /\ listening = FALSE
  /\ readySent = FALSE
  /\ ipc = <<>>
  /\ published = <<>>
  /\ delivered = <<>>
  /\ started = 0

rendererVars == <<tabs, activeId, status>>

\* parseArgTargets, app.on('open-file'), app.on('second-instance'):
\* deliverResource(loader) up to its await
InboundEvent ==
  /\ windowOpen
  /\ started < MaxInbound
  /\ started' = started + 1
  /\ loaders' = loaders + 1
  /\ last' = [op |-> "deliverResource"]
  /\ UNCHANGED <<rendererVars, nextId, now, inflight, rendererReady, pendingResources,
                 argLoaders, windows, windowOpen, listening, readySent, ipc, published, delivered>>

\* publishResource(resource): sent when rendererReady && mainWindow, else
\* queued; mainWindow is set by the first createWindow and never cleared
publishResource(resource) ==
  /\ published' = Append(published, resource.id)
  /\ IF rendererReady
     THEN /\ ipc' = Append(ipc, ResourceOpenedMessage(resource))
          /\ UNCHANGED pendingResources
     ELSE /\ pendingResources' = Append(pendingResources, resource)
          /\ UNCHANGED ipc

\* deliverResource, try: the loader resolved
LoaderResolves ==
  \E r \in InboundResources(nextId, now) :
    /\ windowOpen
    /\ loaders > 0
    /\ loaders' = loaders - 1
    /\ publishResource(r)
    /\ nextId' = nextId + 1
    /\ now' = now + 1
    /\ last' = [op |-> "publishResource", id |-> r.id]
    /\ UNCHANGED <<rendererVars, inflight, rendererReady, argLoaders, windows, windowOpen,
                   listening, readySent, delivered, started>>

\* deliverResource, catch: mainWindow?.webContents.send('resource-error', message)
LoaderRejects ==
  \E m \in Messages :
    /\ windowOpen
    /\ loaders > 0
    /\ loaders' = loaders - 1
    /\ ipc' = Append(ipc, ResourceErrorMessage(m))
    /\ last' = [op |-> "loaderRejected", message |-> m]
    /\ UNCHANGED <<rendererVars, nextId, now, inflight, rendererReady, pendingResources,
                   argLoaders, windows, windowOpen, listening, readySent, published, delivered,
                   started>>

\* the useEffect of App: onResourceOpened, onResourceError, signalReady
RendererMounts ==
  /\ windowOpen
  /\ ~listening
  /\ listening' = TRUE
  /\ readySent' = TRUE
  /\ last' = [op |-> "signalReady"]
  /\ UNCHANGED <<rendererVars, nextId, now, inflight, rendererReady, pendingResources,
                 loaders, argLoaders, windows, windowOpen, ipc, published, delivered, started>>

\* flushPending: every queued resource is sent, first in first out
flushPending(queue) ==
  [ i \in 1..Len(queue) |-> ResourceOpenedMessage(queue[i]) ]

\* ipcMain.on('renderer-ready'): rendererReady = true; flushPending()
RendererReadyReceived ==
  /\ readySent
  /\ readySent' = FALSE
  /\ rendererReady' = TRUE
  /\ ipc' = ipc \o flushPending(pendingResources)
  /\ pendingResources' = <<>>
  /\ last' = [op |-> "rendererReady", flushed |-> Len(pendingResources)]
  /\ UNCHANGED <<rendererVars, nextId, now, inflight, loaders, argLoaders, windows, windowOpen,
                 listening, published, delivered, started>>

\* the first message in flight reaches the renderer: ipcRenderer emits it to
\* the listeners registered for its channel, and to nobody when there is none
IpcArrives ==
  /\ windowOpen
  /\ ipc # <<>>
  /\ ipc' = Tail(ipc)
  /\ IF ~listening
     THEN /\ last' = [op |-> "dropped", channel |-> Head(ipc).channel]
          /\ UNCHANGED <<rendererVars, delivered>>
     ELSE IF Head(ipc).channel = "resource-opened"
     THEN \E eager \in BOOLEAN :
            LET st == addResource(Store, << Head(ipc).resource >>, << eager >>)
            IN /\ tabs' = st.tabs
               /\ activeId' = st.activeId
               /\ status' = st.status
               /\ delivered' = Append(delivered, Head(ipc).resource.id)
               /\ last' = [op |-> "addResource", resources |-> << Head(ipc).resource >>]
     ELSE /\ status' = Head(ipc).message
          /\ last' = [op |-> "error", message |-> Head(ipc).message]
          /\ UNCHANGED <<tabs, activeId, delivered>>
  /\ UNCHANGED <<nextId, now, inflight, rendererReady, pendingResources, loaders, argLoaders,
                 windows, windowOpen, listening, readySent, published, started>>

\* the user closes the idle window; on darwin the application keeps running
\* (app.on('window-all-closed')) with rendererReady and mainWindow as they are
WindowClosed ==
  /\ windowOpen
  /\ windows < MaxWindows
  /\ rendererReady
  /\ loaders = 0
  /\ ipc = <<>>
  /\ windowOpen' = FALSE
  /\ listening' = FALSE
  /\ last' = [op |-> "windowClosed"]
  /\ UNCHANGED <<rendererVars, nextId, now, inflight, rendererReady, pendingResources,
                 loaders, argLoaders, windows, readySent, ipc, published, delivered, started>>

\* app.on('activate'): createWindow() when no window is left; the page of the
\* new window starts with the initial state of App
Activate ==
  /\ ~windowOpen
  /\ windows < MaxWindows
  /\ windows' = windows + 1
  /\ windowOpen' = TRUE
  /\ tabs' = <<>>
  /\ activeId' = NoId
  /\ status' = NoStatus
  /\ last' = [op |-> "createWindow"]
  /\ UNCHANGED <<nextId, now, inflight, rendererReady, pendingResources, loaders, argLoaders,
                 listening, readySent, ipc, published, delivered, started>>

NextMain ==
  \/ InboundEvent
  \/ LoaderResolves
  \/ LoaderRejects
  \/ RendererMounts
  \/ RendererReadyReceived
  \/ IpcArrives
  \/ WindowClosed
  \/ Activate

SpecMain == InitMain /\ [][NextMain]_vars

\* the event loop runs every callback that is due: a pending loader settles,
\* the page mounts, a message in flight arrives
FairSpecMain ==
  /\ SpecMain
  /\ WF_vars(LoaderResolves \/ LoaderRejects)
  /\ WF_vars(RendererMounts)
  /\ WF_vars(RendererReadyReceived)
  /\ WF_vars(IpcArrives)

\* ------------------------------------- main process: command-line arguments
\* process.argv / the argv of 'second-instance', past the executable
ArgValues ==
  { << "https", ":", "/", "/", "h", "/", "a", ".", "md" >>,
    << "/", "docs", "/", "a", ".", "md" >>,
    << "notes", ".", "md" >>,
    << "img", ".", "png" >>,
    << "-", "-", "d" >> }

Argvs == UNION { [1..n -> ArgValues] : n \in 1..MaxInbound }

\* process.cwd()
WorkingDirectory == << <<>>, << "docs" >> >>

\* arg.startsWith('--')
IsSwitch(arg) == Len(arg) >= 2 /\ arg[1] = "-" /\ arg[2] = "-"

\* isMarkdownPath: target.split('?')[0].split('#')[0], in lower case, ends
\* in an extension of markdownExtensions
isMarkdownPath(target) ==
  LET normalized == BeforeFirst(BeforeFirst(target, "?"), "#")
      n == Len(normalized)
  IN /\ n >= 2
     /\ normalized[n - 1] = "."
     /\ Lower(normalized[n]) \in markdownExtensions

\* parseArgTargets: the loaders it hands to deliverResource, in the order of
\* argv; first is the order of the first of them
RECURSIVE parseArgTargets(_, _)
parseArgTargets(argv, first) ==
  IF argv = <<>> THEN <<>>
  ELSE LET arg == Head(argv)
       IN IF IsSwitch(arg) THEN parseArgTargets(Tail(argv), first)
          ELSE IF IsHttpUrl(arg)
          THEN << [loader |-> "fetchMarkdownUrl", arg |-> arg, order |-> first] >>
                 \o parseArgTargets(Tail(argv), first + 1)
          ELSE IF isMarkdownPath(arg)
          THEN << [loader |-> "readMarkdownFile", arg |-> arg, order |-> first] >>
                 \o parseArgTargets(Tail(argv), first + 1)
          ELSE parseArgTargets(Tail(argv), first)

\* the resource the loader of an argument resolves with
ArgResource(l, id, t) ==
  IF l.loader = "fetchMarkdownUrl"
  THEN fetchMarkdownUrl(ParseUrl(l.arg), ParseUrl(StripFragment(l.arg)), "v1", id, t)
  ELSE readMarkdownFile(pathResolve(WorkingDirectory, l.arg), "v1", id, t)

\* the message the loader of an argument rejects with
ArgRejection(l) ==
  IF l.loader = "fetchMarkdownUrl" THEN "Failed to load"
  ELSE "ENOENT: no such file or directory"

\* app.whenReady (after createWindow) and app.on('second-instance'):
\* parseArgTargets(argv), every deliverResource up to its await
ArgsParsed ==
  \E argv \in Argvs :
    LET begun == parseArgTargets(argv, started + 1)
    IN /\ started + Len(begun) <= MaxInbound
       /\ started' = started + Len(begun)
       /\ loaders' = loaders + Len(begun)
       /\ argLoaders' = argLoaders \o begun
       /\ last' = [op |-> "parseArgTargets", argv |-> argv, begun |-> begun]
       /\ UNCHANGED <<rendererVars, nextId, now, inflight, rendererReady,
                      pendingResources, windows, windowOpen, listening, readySent,
                      ipc, published, delivered>>

\* deliverResource, try: the loader of one argument resolved
ArgLoaderResolves ==
  \E i \in 1..Len(argLoaders) :
    LET r == ArgResource(argLoaders[i], nextId, now)
    IN /\ argLoaders' = RemoveAt(argLoaders, i)
       /\ loaders' = loaders - 1
       /\ publishResource(r)
       /\ nextId' = nextId + 1
       /\ now' = now + 1
       /\ last' = [op |-> "publishResource", id |-> r.id, resource |-> r,
                   order |-> argLoaders[i].order]
       /\ UNCHANGED <<rendererVars, inflight, rendererReady, windows, windowOpen,
                      listening, readySent, delivered, started>>

\* deliverResource, catch: the loader of one argument rejected
ArgLoaderRejects ==
  \E i \in 1..Len(argLoaders) :
    /\ argLoaders' = RemoveAt(argLoaders, i)
    /\ loaders' = loaders - 1
    /\ ipc' = Append(ipc, ResourceErrorMessage(ArgRejection(argLoaders[i])))
    /\ last' = [op |-> "loaderRejected", message |-> ArgRejection(argLoaders[i]),
                order |-> argLoaders[i].order]
    /\ UNCHANGED <<rendererVars, nextId, now, inflight, rendererReady,
                   pendingResources, windows, windowOpen, listening, readySent,
                   published, delivered, started>>

NextArgs ==
  \/ ArgsParsed
  \/ ArgLoaderResolves
  \/ ArgLoaderRejects
  \/ RendererMounts
  \/ RendererReadyReceived
  \/ IpcArrives

SpecArgs == InitMain /\ [][NextArgs]_vars

\* ================================================================ claims
\* the (kind, identity) pair of a resource: the path of a file, the final
\* URL (else the requested URL) of a url
Identity(r) == << r.kind, IF r.kind = "file" THEN r.path ELSE UrlOf(r) >>

\* the positions of ts whose entry has the identity of r
PositionsOf(ts, r) == { i \in 1..Len(ts) : Identity(ts[i]) = Identity(r) }

\* a step of addResource with one resource
SingleUpsertStep == last'.op = "addResource" /\ Len(last'.resources) = 1

\* C1: in every reachable state the tab collection holds at most one entry
\* per (kind, identity) pair.
C1_OneTabPerIdentity ==
  \A i, j \in 1..Len(tabs) : Identity(tabs[i]) = Identity(tabs[j]) => i = j

\* C1 witness: a resource was upserted into a collection of two tabs and was
\* merged into the tab of its identity, which keeps an older id
C1_Witness ==
  /\ last.op = "addResource"
  /\ Len(tabs) = 2
  /\ \E i \in 1..2 :
       /\ Identity(tabs[i]) = Identity(last.resources[1])
       /\ tabs[i].id < last.resources[1].id

\* C2: an Upsert whose identity matches an existing tab keeps the length of
\* the collection, keeps the matched tab at its index with its id, leaves
\* every other entry as it was, and replaces the matched tab's content,
\* title, base and openedAt by those of the incoming resource.
C2_UpsertMatchInPlace ==
  [][ SingleUpsertStep =>
        \A i \in PositionsOf(tabs, last'.resources[1]) :
          LET r == last'.resources[1]
          IN /\ Len(tabs') = Len(tabs)
             /\ tabs'[i].id = tabs[i].id
             /\ \A j \in 1..Len(tabs) : j # i => tabs'[j] = tabs[j]
             /\ tabs'[i].content = r.content
             /\ tabs'[i].title = r.title
             /\ tabs'[i].basePath = r.basePath
             /\ tabs'[i].baseUrl = r.baseUrl
             /\ tabs'[i].openedAt = r.openedAt
             /\ Identity(tabs'[i]) = Identity(r) ]_vars

\* C2 witness: a resource was merged into the first of two tabs, whose
\* content and openedAt are now the incoming ones while its id is older
C2_Witness ==
  /\ last.op = "addResource"
  /\ Len(last.resources) = 1
  /\ Len(tabs) = 2
  /\ tabs[1].id < last.resources[1].id
  /\ tabs[1].openedAt = last.resources[1].openedAt
  /\ tabs[1].content = "v2"
  /\ tabs[2].content = "v1"

\* C3: an Upsert whose identity matches no existing tab appends exactly one
\* entry at the end (every prior entry keeps its index, id and content) and
\* makes the new entry the active one.
C3_UpsertNovelAppends ==
  [][ (SingleUpsertStep /\ PositionsOf(tabs, last'.resources[1]) = {}) =>
        /\ Len(tabs') = Len(tabs) + 1
        /\ \A j \in 1..Len(tabs) : tabs'[j] = tabs[j]
        /\ tabs'[Len(tabs')] = last'.resources[1]
        /\ activeId' = tabs'[Len(tabs')].id ]_vars

\* C3 witness: the third resource was appended as the third tab and is
\* the active one
C3_Witness ==
  /\ last.op = "addResource"
  /\ Len(last.resources) = 1
  /\ Len(tabs) = 3
  /\ tabs[3] = last.resources[1]
  /\ activeId = tabs[3].id

\* the resource addResource applied last in the step
LastApplied == last'.resources[Len(last'.resources)]

\* C4: after an Upsert that matches an existing tab, activeId is the id the
\* matched tab already had, whether the resource arrives alone or as the
\* last element of a batch.
C4_MatchActivatesExistingId ==
  [][ last'.op = "addResource" =>
        \A i \in PositionsOf(tabs, LastApplied) : activeId' = tabs[i].id ]_vars

\* C5: activeId is none exactly when the collection is empty, and otherwise
\* is the id of an entry of the collection.
C5_ActiveIdInCollection ==
  /\ (activeId = NoId) <=> (tabs = <<>>)
  /\ activeId # NoId => activeId \in TabIds(tabs)

\* C6: closing the active tab at position i of N makes active the entry
\* that followed it, else the entry before it, else none; some tab is active
\* afterwards when N > 1, and closing the last of three makes the second
\* active.
C6_CloseActiveFallback ==
  [][ (last'.op = "close" /\ last'.id = activeId /\ last'.index > 0) =>
        LET i == last'.index
            N == Len(tabs)
        IN /\ tabs[i].id = activeId
           /\ activeId' = IF i < N THEN tabs[i + 1].id
                          ELSE IF i > 1 THEN tabs[i - 1].id
                          ELSE NoId
           /\ N > 1 => activeId' \in TabIds(tabs')
           /\ activeId' = NoId => N = 1
           /\ (N = 3 /\ i = 3) => activeId' = tabs[2].id ]_vars

\* C6 witness: the third of three tabs was active and was closed; the second
\* is active now
C6_Witness ==
  /\ last.op = "close"
  /\ last.wasActive
  /\ last.index = 3
  /\ Len(tabs) = 2
  /\ activeId = tabs[2].id

\* C7: closing a tab that is not the active one leaves activeId as it was.
C7_CloseInactiveKeepsActive ==
  [][ (last'.op = "close" /\ last'.index > 0 /\ last'.id # activeId) =>
        activeId' = activeId ]_vars

\* C7 witness: the first of three tabs was closed while a later one was
\* active, and that one is still active
C7_Witness ==
  /\ last.op = "close"
  /\ ~last.wasActive
  /\ last.index = 1
  /\ Len(tabs) = 2
  /\ activeId = tabs[2].id

C9_SetActiveOnlyExisting ==
  [][ last'.op = "setActive" =>
        /\ last'.id \in TabIds(tabs)
        /\ activeId' = last'.id
        /\ tabs' = tabs
        /\ status' = status ]_vars

\* C9 witness: the first of two tabs was selected while a status message
\* was shown
C9_Witness ==
  /\ last.op = "setActive"
  /\ Len(tabs) = 2
  /\ activeId = tabs[1].id
  /\ status # NoStatus

\* two resources of two fetches of the same target with the same result:
\* all but id and openedAt is equal
SameFetch(r, q) ==
  [r EXCEPT !.id = 0, !.openedAt = 0] = [q EXCEPT !.id = 0, !.openedAt = 0]

\* C10: an Upsert that repeats the Upsert before it (the same resource)
\* leaves the collection, with its length, order, ids and contents, and
\* activeId and status as the first left them.
C10_UpsertIdempotent ==
  [][ (/\ last.op = "addResource" /\ Len(last.resources) = 1
       /\ SingleUpsertStep
       /\ SameFetch(last.resources[1], last'.resources[1])) =>
        /\ Len(tabs') = Len(tabs)
        /\ \A j \in 1..Len(tabs) :
             [tabs'[j] EXCEPT !.openedAt = 0] = [tabs[j] EXCEPT !.openedAt = 0]
        /\ activeId' = activeId
        /\ status' = status ]_vars

\* ------------------------------------------------------------ link claims
\* a step of the link classifier: a click whose decision last' records
LinkStep == last'.op = "link"

\* the click changed nothing and called nothing
Untouched ==
  /\ inflight' = inflight
  /\ tabs' = tabs
  /\ activeId' = activeId
  /\ status' = status

\* C15: a click on an href that is empty or starts with '#' (also after
\* trimming) is a no-op whatever document is active: no call of openUrl,
\* openReference or openExternal is made, and tabs, activeId and status stay.
C15_AnchorIsNoop ==
  [][ (LinkStep /\ (Trim(last'.href) = <<>> \/ Trim(last'.href)[1] = "#")) =>
        /\ last'.category = "noop"
        /\ last'.call = NoCall
        /\ Untouched ]_vars

\* C15 witness: "#intro" preceded by a blank was clicked in a url-kind
\* document while a message was shown; the message is still shown
C15_Witness ==
  /\ last.op = "link"
  /\ last.href = << " ", "#", "intro" >>
  /\ last.kind = "url"
  /\ status # NoStatus
  /\ inflight = <<>>

\* the path component of an absolute web URL, query and fragment ignored:
\* the segments after the host
UrlPathOf(text) ==
  LET body == IF text[1] = "/" THEN SubSeq(text, 3, Len(text))
              ELSE SubSeq(text, 5, Len(text))
  IN Tail(SplitOn(BeforeFirst(BeforeFirst(body, "#"), "?"), "/"))

\* the path ends in a markdown extension, in any letter case
PathHasMarkdownExtension(text) ==
  LET path == UrlPathOf(text)
      name == IF path = <<>> THEN <<>> ELSE path[Len(path)]
  IN /\ Len(name) >= 2
     /\ name[Len(name) - 1] = "."
     /\ Lower(name[Len(name)]) \in markdownExtensions

\* C16: a click on an absolute web URL (http://, https:// or //) calls
\* openUrl exactly when the path component of the URL, query and fragment
\* ignored, ends in a markdown extension, and calls openExternal otherwise,
\* never both, whatever document is active.
C16_WebUrlByPathExtension ==
  [][ (LinkStep /\ last'.hadTab /\ IsWebUrl(Trim(last'.href))) =>
        /\ PathHasMarkdownExtension(Trim(last'.href)) =>
             (last'.category = "fetch" /\ last'.call.api = "openUrl")
        /\ ~PathHasMarkdownExtension(Trim(last'.href)) =>
             (last'.category = "external" /\ last'.call.api = "openExternal") ]_vars

\* C16 restricted to URLs with a path: there the decision follows the
\* extension of the path
C16_WebUrlWithPath ==
  [][ (LinkStep /\ last'.hadTab /\ IsWebUrl(Trim(last'.href))
         /\ UrlPathOf(Trim(last'.href)) # <<>>) =>
        /\ last'.category \in { "fetch", "external" }
        /\ last'.category = "fetch" <=> PathHasMarkdownExtension(Trim(last'.href)) ]_vars

\* the scheme of an href, lower-cased lexeme by lexeme
SchemeOf(s) == [ k \in 1..SchemeLength(s) |-> Lower(s[k]) ]

\* C17: a click on an href that starts with a URI scheme other than http or
\* https calls openExternal with the href and fetches nothing, whatever the
\* href ends in and whatever document is active.
C17_SchemeIsExternal ==
  [][ (LinkStep /\ last'.hadTab /\ HasUrlScheme(Trim(last'.href))
         /\ SchemeOf(Trim(last'.href)) \notin { << "http" >>, << "https" >> }) =>
        /\ last'.category = "external"
        /\ last'.call = [api |-> "openExternal", url |-> Trim(last'.href)]
        /\ tabs' = tabs /\ activeId' = activeId /\ status' = status ]_vars

\* C17 restricted to schemes made of letters only (mailto:, ftp:)
C17_LetterSchemeIsExternal ==
  [][ (LinkStep /\ last'.hadTab /\ SchemeLength(Trim(last'.href)) = 1
         /\ SchemeOf(Trim(last'.href)) \notin { << "http" >>, << "https" >> }) =>
        /\ last'.category = "external"
        /\ last'.call = [api |-> "openExternal", url |-> Trim(last'.href)] ]_vars

\* a relative href that is no markdown link: no anchor, no web URL, no scheme
IsRelativeOther(trimmed) ==
  /\ ~IsAnchor(trimmed)
  /\ ~IsWebUrl(trimmed)
  /\ ~HasUrlScheme(trimmed)
  /\ ~isMarkdownLink(trimmed)

\* C18: a click on a relative href without a markdown extension, in a
\* url-kind document, calls openExternal with the href resolved against the
\* document's base URL (img.png in https://h/d/r.md gives https://h/d/img.png)
\* and changes nothing else; in a file-kind document it is a no-op: no call,
\* no message, the store as it was.
C18_RelativeOtherByKind ==
  [][ (LinkStep /\ last'.hadTab /\ IsRelativeOther(Trim(last'.href))) =>
        /\ (last'.kind = "url" /\ UrlBase(ActiveTab) # Undefined) =>
             /\ last'.category = "external"
             /\ last'.call = [api |-> "openExternal",
                              url |-> ResolveUrl(UrlBase(ActiveTab), Trim(last'.href))]
             /\ (UrlBase(ActiveTab) = << << "h" >>, << "d" >>, << "r", ".", "md" >> >>
                   /\ Trim(last'.href) = << "img", ".", "png" >>) =>
                  last'.call.url = << << "h" >>, << "d" >>, << "img", ".", "png" >> >>
             /\ inflight' = << last'.call >>
             /\ tabs' = tabs /\ activeId' = activeId /\ status' = status
        /\ last'.kind = "file" =>
             /\ last'.category = "noop"
             /\ ~last'.handled
             /\ last'.call = NoCall
             /\ Untouched ]_vars

\* C18 witness: img.png was clicked in the document https://h/d/r.md and
\* https://h/d/img.png is on its way to openExternal
C18_Witness ==
  /\ last.op = "link"
  /\ last.href = << "img", ".", "png" >>
  /\ last.kind = "url"
  /\ inflight = << [api |-> "openExternal",
                    url |-> << << "h" >>, << "d" >>, << "img", ".", "png" >> >>] >>

\* a file-kind document in which img.png was clicked: nothing is called
C18_FileNoopReached ==
  /\ last.op = "link"
  /\ last.href = << "img", ".", "png" >>
  /\ last.kind = "file"
  /\ last.category = "noop"
  /\ status # NoStatus

\* a relative href with a markdown extension
IsRelativeMarkdown(trimmed) ==
  /\ ~IsAnchor(trimmed)
  /\ ~IsWebUrl(trimmed)
  /\ ~HasUrlScheme(trimmed)
  /\ isMarkdownLink(trimmed)

\* the step in which the call of a link activation resolved with a resource
LinkResolvedStep ==
  /\ last'.op = "addResource"
  /\ inflight # <<>>
  /\ inflight' = <<>>

\* the directory /docs, the files /notes.md and /docs/notes.md, and the
\* text of the hrefs that lead there
DocsDir == << <<>>, << "docs" >> >>
RootNotes == << <<>>, << "notes", ".", "md" >> >>
DocsNotes == << <<>>, << "docs" >>, << "notes", ".", "md" >> >>
UpNotesHref == << ".", ".", "/", "notes", ".", "md" >>
NotesHref == << "notes", ".", "md" >>

\* C19: a click on a relative href with a markdown extension, in a document
\* that has a base, calls openReference with the href, the kind and the base
\* of the document active at the click (its directory for a file, its base
\* URL for a URL) and changes nothing yet; when the call resolves, the
\* resource at the resolved target is upserted, whatever tab is active by
\* then: '../notes.md' from a file with base /docs is the file /notes.md.
C19_RelativeMarkdownResolved ==
  [][ /\ (LinkStep /\ last'.hadTab /\ IsRelativeMarkdown(Trim(last'.href))
            /\ ReferenceBase(ActiveTab) # Undefined) =>
           /\ last'.category = "fetch"
           /\ last'.handled
           /\ last'.call = [ api |-> "openReference", href |-> Trim(last'.href),
                             origin |-> ActiveTab.kind,
                             base |-> IF ActiveTab.kind = "file"
                                      THEN ActiveTab.basePath
                                      ELSE UrlBase(ActiveTab) ]
           /\ inflight' = << last'.call >>
           /\ tabs' = tabs /\ activeId' = activeId /\ status' = status
      /\ (LinkResolvedStep /\ inflight[1].api = "openReference") =>
           LET call == inflight[1]
               r == last'.resources[1]
           IN /\ r.kind = call.origin
              /\ call.origin = "file" =>
                   /\ r.path = pathResolve(call.base, call.href)
                   /\ (call.base = DocsDir /\ call.href = UpNotesHref) => r.path = RootNotes
                   /\ (call.base = DocsDir /\ call.href = NotesHref) => r.path = DocsNotes
              /\ call.origin = "url" =>
                   /\ r.url = ResolveUrl(call.base, call.href)
                   /\ (call.base = << << "h" >>, << "d" >>, << "r", ".", "md" >> >>
                         /\ call.href = UpNotesHref) =>
                        r.url = << << "h" >>, << "notes", ".", "md" >> >>
              /\ \E i \in 1..Len(tabs') : Identity(tabs'[i]) = Identity(r) ]_vars

\* C19 witness: '../notes.md' was clicked in /docs/a.md and /notes.md is now
\* a tab next to it
C19_Witness ==
  /\ last.op = "addResource"
  /\ last.resources[1].path = RootNotes
  /\ Len(tabs) = 2
  /\ tabs[1].basePath = DocsDir
  /\ tabs[2].path = RootNotes

\* C20: a click on a relative href with a markdown extension, in a document
\* that has no base, shows the missing-base message and reports the click as
\* handled; nothing is fetched, nothing is opened externally, and tabs and
\* activeId stay.
C20_MissingBaseIsError ==
  [][ (LinkStep /\ last'.hadTab /\ IsRelativeMarkdown(Trim(last'.href))
         /\ ReferenceBase(ActiveTab) = Undefined) =>
        /\ last'.category = "error"
        /\ last'.handled
        /\ last'.call = NoCall
        /\ inflight' = inflight
        /\ tabs' = tabs
        /\ activeId' = activeId
        /\ status' = NoBaseMessage ]_vars

\* C20 witness: notes.md was clicked in a file-kind document without
\* basePath; the message is shown and no call is outstanding
C20_Witness ==
  /\ last.op = "link"
  /\ last.href = NotesHref
  /\ last.kind = "file"
  /\ Len(tabs) = 1
  /\ tabs[1].basePath = Undefined
  /\ status = NoBaseMessage
  /\ inflight = <<>>

\* a click that sets no message: a no-op, or a call handed to the main process
QuietLinkStep ==
  LinkStep /\ last'.category \in { "noop", "external", "fetch" }

\* C11: the message changes in three ways only: an error sets it to the
\* error's message, whatever was shown; an upsert clears it; Dismiss clears
\* it. Close, SetActive, a click that is a no-op and the hand-over of a link
\* to openExternal or to a fetch leave the message as it was.
C11_StatusChanges ==
  [][ /\ last'.op = "error" => status' = last'.message
      /\ (LinkStep /\ last'.category = "error") => status' = NoBaseMessage
      /\ (last'.op = "addResource" /\ last'.resources # <<>>) => status' = NoStatus
      /\ last'.op = "dismiss" => status' = NoStatus
      /\ (last'.op \in { "close", "setActive", "externalOpened" } \/ QuietLinkStep) =>
           status' = status
      /\ status' # status =>
           \/ last'.op \in { "error", "addResource", "dismiss" }
           \/ (LinkStep /\ last'.category = "error") ]_vars

\* C11 witness: a tab was closed while the message of a failed fetch was
\* shown, and the message is still shown
C11_Witness ==
  /\ last.op = "close"
  /\ last.index > 0
  /\ status = "Failed to load"

\* C12: a failed fetch (the rejection of a toolbar open, of a URL submit, of
\* openUrl or openReference of a link, an inbound resource error) and a
\* markdown link without a base leave tabs and activeId exactly as they were
\* and set the message.
C12_FailureKeepsStore ==
  [][ (last'.op = "error" \/ (LinkStep /\ last'.category = "error")) =>
        /\ tabs' = tabs
        /\ activeId' = activeId
        /\ nextId' = nextId
        /\ status' # NoStatus ]_vars

\* C12 witness: openUrl was rejected for its scheme while two tabs were
\* open; both are still there
C12_Witness ==
  /\ last.op = "error"
  /\ last.message = OnlyHttpMessage
  /\ Len(tabs) = 2
  /\ activeId \in TabIds(tabs)

\* ------------------------------------------------------ inbound claims
\* a is the beginning of b
IsPrefix(a, b) == Len(a) <= Len(b) /\ a = SubSeq(b, 1, Len(a))

\* the ids of the resources the messages in flight carry
InFlightIds == { ipc[i].resource.id : i \in { j \in 1..Len(ipc) : ipc[j].channel = "resource-opened" } }

\* nothing is pending in the main process or on its way to the renderer
Settled ==
  /\ loaders = 0
  /\ pendingResources = <<>>
  /\ ipc = <<>>
  /\ listening
  /\ rendererReady
  /\ ~readySent

\* C13: every failed load of an inbound event is shown: once deliverResource
\* has caught the error with message m, the status message is m at some
\* later time, also when the renderer had not signalled readiness yet.
C13_FailureEventuallyShown ==
  \A m \in Messages :
    (last.op = "loaderRejected" /\ last.message = m) ~> (status = m)

\* C13 for failures caught while the renderer listens
C13_ShownOnceListening ==
  \A m \in Messages :
    (last.op = "loaderRejected" /\ last.message = m /\ listening) ~> (status = m)

\* C14: a resource published while the renderer of the window has not
\* signalled readiness is queued, not sent; the renderer gets the published
\* resources in the order of publication, each at most once, none before an
\* earlier one; and when nothing is pending any more it has got them all.
C14_QueuedDeliveredInOrder ==
  /\ ~listening => InFlightIds = {}
  /\ IsPrefix(delivered, published)
  /\ Settled => delivered = published

\* C14 for the first window of the application
C14_FirstWindowInOrder ==
  windows = 1 => C14_QueuedDeliveredInOrder

\* two resources were queued before readiness and reached the first
\* window's renderer in the order of their publication
C14_FirstWindowReached ==
  /\ windows = 1
  /\ Settled
  /\ last.op = "addResource"
  /\ published = << 1, 2 >>
  /\ delivered = << 1, 2 >>

\* ------------------------------------------------------ classifier claims
\* a document that has the kind and the base of tab and nothing else of it
SameKindAndBase(tab) ==
  [ id |-> NoId, kind |-> tab.kind, path |-> Undefined, url |-> Undefined,
    finalUrl |-> Undefined, title |-> "", content |-> "", openedAt |-> 0,
    basePath |-> IF tab.kind = "file" THEN tab.basePath ELSE Undefined,
    baseUrl |-> IF tab.kind = "url" THEN UrlBase(tab) ELSE Undefined ]

\* the tabs of a collection, as a set
TabsOf(ts) == { ts[i] : i \in 1..Len(ts) }

\* what the classifier decides for href in the document tab
CategoryOf(tab, href) == handleLinkActivation(tab, href).category

\* C21: the category the classifier decides is a function of the href and
\* of the kind and the base of the active document. For every document, from
\* the moment an upsert has put it into the collection, and for every href,
\* it is the category decided for a document that has only that kind and
\* base; and the category of the click that was made last is the one decided
\* for the kind and base of the active document, whatever the other tabs,
\* activeId and the message are (a click leaves tabs and activeId as they
\* were).
C21_ClassificationIsFunction ==
  /\ last.op = "addResource" =>
       \A tab \in TabsOf(tabs), href \in Hrefs :
         CategoryOf(tab, href) = CategoryOf(SameKindAndBase(tab), href)
  /\ (last.op = "link" /\ last.hadTab /\ last.href # <<>> /\ last.href[1] # "#") =>
       last.category = CategoryOf(SameKindAndBase(ActiveTab), last.href)

\* C21 witness: the same href was clicked a second time, in another document
\* of the same kind and base, with another tab and a message present
C21_Witness ==
  /\ last.op = "link"
  /\ last.href = << "img", ".", "png" >>
  /\ last.category = "external"
  /\ Len(tabs) = 2
  /\ status # NoStatus
  /\ activeId = tabs[2].id

\* ------------------------------------------------------ concurrency claims
\* the step in which an outstanding fetch resolved
FetchResolvedStep ==
  /\ last'.op = "addResource"
  /\ Len(inflight') = Len(inflight) - 1

\* the resource the step upserted
Arrived == last'.resources[1]

\* C22: when a fetch completes while a tab of its identity exists (as it
\* does when another fetch of that identity completed before), the
\* collection keeps its length and order, the tab keeps its position and its
\* id and takes everything else, the content too, from the fetch that has
\* just completed, whichever of the fetches was started first; there is
\* still exactly one tab of that identity.
C22_LastCompletionWins ==
  [][ (FetchResolvedStep /\ PositionsOf(tabs, Arrived) # {}) =>
        \E k \in 1..Len(tabs) :
          /\ PositionsOf(tabs, Arrived) = { k }
          /\ PositionsOf(tabs', Arrived) = { k }
          /\ Len(tabs') = Len(tabs)
          /\ tabs'[k] = [Arrived EXCEPT !.id = tabs[k].id]
          /\ tabs'[k].content = Arrived.content
          /\ \A j \in 1..Len(tabs) : j # k => tabs'[j] = tabs[j] ]_vars

\* C22 witness: two fetches of /docs/a.md were outstanding; the one started
\* second completed first and made tab 1, the one started first completed
\* last and its content v1 is what the tab shows
C22_Witness ==
  /\ last.op = "addResource"
  /\ last.order = 1
  /\ started = 2
  /\ nextId = 3
  /\ inflight = <<>>
  /\ Len(tabs) = 1
  /\ tabs[1].id = 1
  /\ tabs[1].openedAt = 2
  /\ tabs[1].content = "v1"

\* ---------------------------------------------------------------- C23
\* the orders of the fetches that are outstanding
InflightOrders(q) == { q[i].order : i \in 1..Len(q) }

\* the step ends the fetch whose order is in last'.order, and no other
EndsOneFetch ==
  /\ Len(inflight') = Len(inflight) - 1
  /\ InflightOrders(inflight') = InflightOrders(inflight) \ { last'.order }
  /\ last'.order \in InflightOrders(inflight)

\* the outcome of a step that ends a fetch: one Upsert of its result with the
\* message cleared, or one message with the collection as it was
OneOutcome ==
  \/ /\ last'.op = "addResource"
     /\ Len(last'.resources) = 1
     /\ tabs' = UpsertTabs(tabs, Arrived)
     /\ PositionsOf(tabs, Arrived) = {} => tabs' = Append(tabs, Arrived)
  \/ /\ last'.op = "error"
     /\ status' = last'.message
     /\ tabs' = tabs
     /\ activeId' = activeId

\* C23 (the part the code keeps): a fetch stays outstanding through Close,
\* SetActive, Dismiss and the start of further fetches; it ends only by its
\* own completion, which is one Upsert of its result or one error message;
\* when no entry of its identity is left, the result is appended at the end.
C23_OneOutcomeNoCancel ==
  [][ /\ last'.op \in { "close", "setActive", "dismiss", "fetchStarted" } =>
            IsPrefix(inflight, inflight')
      /\ Len(inflight') < Len(inflight) => (EndsOneFetch /\ OneOutcome)
      /\ \A i, j \in 1..Len(inflight') :
            i < j => inflight'[i].order < inflight'[j].order
      /\ \A o \in InflightOrders(inflight') : o <= started' ]_vars

\* C23: every fetch that was started ends in exactly one outcome and is not
\* cancelled by Close, SetActive or further opens; a successful completion
\* makes its document the active tab, and appends it at the end when the tab
\* of its identity was closed in the meantime.
C23_CompletionNeverSuppressed ==
  [][ /\ last'.op \in { "close", "setActive", "dismiss", "fetchStarted" } =>
            IsPrefix(inflight, inflight')
      /\ Len(inflight') < Len(inflight) => (EndsOneFetch /\ OneOutcome)
      /\ FetchResolvedStep =>
            /\ PositionsOf(tabs', Arrived) # {}
            /\ \A k \in PositionsOf(tabs', Arrived) : activeId' = tabs'[k].id ]_vars

\* a fetch started before its tab was closed completed and put the document
\* back, as a new entry at the end, behind a tab opened in between
C23_Witness ==
  /\ last.op = "addResource"
  /\ last.order = 1
  /\ started = 3
  /\ nextId = 4
  /\ Len(tabs) = 2
  /\ tabs[2].id = 3
  /\ tabs[2].path = <<"docs", "a.md">>
  /\ tabs[1].id = 2
  /\ activeId = 3

\* ---------------------------------------------------------------- C24
\* an argument parseArgTargets hands to a loader: an http(s) URL or a path
\* with a markdown extension (switches are no paths)
IsTargetArgument(arg) == ~IsSwitch(arg) /\ (IsHttpUrl(arg) \/ isMarkdownPath(arg))

\* the arguments of a list that are handed to a loader, in order
TargetArguments(argv) == SelectSeq(argv, IsTargetArgument)

\* the step is parseArgTargets(argv): one loader per target argument, in the
\* order of argv, behind the loaders that are pending; nothing is published
\* or shown by the step itself, and the other arguments begin nothing
ArgsBegun ==
  LET targets == TargetArguments(last'.argv)
  IN /\ Len(argLoaders') = Len(argLoaders) + Len(targets)
     /\ SubSeq(argLoaders', 1, Len(argLoaders)) = argLoaders
     /\ \A i \in 1..Len(targets) :
          /\ argLoaders'[Len(argLoaders) + i].arg = targets[i]
          /\ argLoaders'[Len(argLoaders) + i].order = started + i
     /\ UNCHANGED <<tabs, activeId, status, ipc, pendingResources, published>>

\* the step settles the loader of one argument: that loader leaves the
\* pending ones and the others stay; its resource is published (sent or
\* queued), or its message is sent
ArgSettled ==
  \E i \in 1..Len(argLoaders) :
    /\ argLoaders' = RemoveAt(argLoaders, i)
    /\ last'.order = argLoaders[i].order
    /\ \/ /\ last'.op = "publishResource"
          /\ last'.resource = ArgResource(argLoaders[i], nextId, now)
          /\ published' = Append(published, last'.resource.id)
          /\ \/ ipc' = Append(ipc, ResourceOpenedMessage(last'.resource))
                  /\ pendingResources' = pendingResources
             \/ pendingResources' = Append(pendingResources, last'.resource)
                  /\ ipc' = ipc
       \/ /\ last'.op = "loaderRejected"
          /\ last'.message = ArgRejection(argLoaders[i])
          /\ ipc' = Append(ipc, ResourceErrorMessage(last'.message))
          /\ UNCHANGED <<pendingResources, published>>

\* C24 (the part the code keeps, in the main process): every argument that
\* is an http(s) URL or a path with a markdown extension gets a loader of its
\* own, every other argument gets none; a loader that settles publishes its
\* own resource or sends its own message and leaves the other loaders
\* pending, whatever their outcome was or will be.
C24_ArgumentsIndependent ==
  [][ /\ last'.op = "parseArgTargets" => ArgsBegun
      /\ argLoaders' # argLoaders /\ last'.op # "parseArgTargets" => ArgSettled
      /\ Len(argLoaders') = loaders' ]_vars

\* the step hands the first message in flight to the renderer
MessageArrives == ipc # <<>> /\ ipc' = Tail(ipc)

\* C24: each argument is processed on its own: a URL or markdown path leads
\* to its own Upsert or to its own error message, whatever happens to the
\* other arguments; any other argument leads to no tab and no message.
C24_EachArgumentOwnOutcome ==
  [][ /\ last'.op = "parseArgTargets" => ArgsBegun
      /\ argLoaders' # argLoaders /\ last'.op # "parseArgTargets" => ArgSettled
      /\ MessageArrives =>
           IF Head(ipc).channel = "resource-opened"
           THEN tabs' = UpsertTabs(tabs, Head(ipc).resource) /\ status' = NoStatus
           ELSE status' = Head(ipc).message /\ tabs' = tabs ]_vars

\* of two arguments of one list the first could not be read and the second
\* was opened: its tab is there, and the message of the first was shown
C24_Witness ==
  /\ last.op = "addResource"
  /\ started = 2
  /\ argLoaders = <<>>
  /\ Len(tabs) = 1
  /\ tabs[1].kind = "url"
  /\ published = << 1 >>
  /\ delivered = << 1 >>
  /\ ipc = <<>>

\* ---------------------------------------------------------------- C25
\* the URL a url resource is compared by: the final URL if it is known,
\* else the requested one
ComparedUrl(r) == IF r.finalUrl # Undefined THEN r.finalUrl ELSE r.url

\* the claim's identity relation of an entry and an incoming resource
SameIdentity(entry, r) ==
  \/ entry.kind = "file" /\ r.kind = "file" /\ entry.path = r.path
  \/ entry.kind = "url" /\ r.kind = "url" /\ ComparedUrl(entry) = ComparedUrl(r)

\* C25: an Upsert merges the incoming resource into the entry that has the
\* same path (file kind) or the same final-else-requested URL (url kind) and
\* appends it when there is none; a file never merges with a url; a URL
\* requested differently but redirected to the final URL of an entry shares
\* its tab, and a URL requested like an entry but with another final URL
\* gets a tab of its own.
C25_IdentityByFinalUrl ==
  [][ SingleUpsertStep =>
        LET r == last'.resources[1]
            same == { i \in 1..Len(tabs) : SameIdentity(tabs[i], r) }
        IN /\ same # {} =>
                /\ Len(tabs') = Len(tabs)
                /\ \E i \in same : tabs'[i] = [r EXCEPT !.id = tabs[i].id]
           /\ same = {} => tabs' = Append(tabs, r)
           /\ \A i \in 1..Len(tabs) :
                /\ tabs[i].kind # r.kind => tabs'[i] = tabs[i]
                /\ ( /\ tabs[i].kind = "url" /\ r.kind = "url"
                     /\ tabs[i].url # r.url
                     /\ tabs[i].finalUrl = r.finalUrl )
                     => (Len(tabs') = Len(tabs) /\ tabs'[i].url = r.url)
                /\ ( /\ tabs[i].kind = "url" /\ r.kind = "url"
                     /\ tabs[i].url = r.url
                     /\ tabs[i].finalUrl # r.finalUrl )
                     => (tabs'[i] = tabs[i] /\ \E j \in 1..Len(tabs') :
                                                  j # i /\ tabs'[j].finalUrl = r.finalUrl
                                                        /\ tabs'[j].kind = "url") ]_vars

\* a URL answered from two final URLs in turn holds two tabs; the first of
\* them has also taken in a resource that was requested under another URL
C25_Witness ==
  /\ last.op = "addResource"
  /\ Len(tabs) = 2
  /\ nextId = 4
  /\ tabs[1].kind = "url" /\ tabs[2].kind = "url"
  /\ tabs[1].id = 1 /\ tabs[2].id = 3
  /\ tabs[1].url = tabs[2].url
  /\ tabs[1].finalUrl # tabs[2].finalUrl
  /\ tabs[1].openedAt = 2

\* ---------------------------------------------------------------- C26
\* no two entries of ts have the same id
IdsDistinct(ts) == \A i, j \in 1..Len(ts) : ts[i].id = ts[j].id => i = j

\* C26: with a fresh id on every resource that is read or fetched, the ids of
\* the entries are distinct after every step (Upsert that matches or
\* appends, alone or in a batch, Close, SetActive), and the entry of an
\* identity has the id it had before the step as long as it stays.
C26_IdsUniqueAndStable ==
  [][ /\ IdsDistinct(tabs')
      /\ \A i \in 1..Len(tabs), j \in 1..Len(tabs') :
           Identity(tabs[i]) = Identity(tabs'[j]) => tabs'[j].id = tabs[i].id
      /\ \A j \in 1..Len(tabs') : tabs'[j].id \in TabIds(tabs) \cup nextId..(nextId' - 1)
    ]_vars

\* the first of two tabs took in a later resource of its identity and kept
\* its id, while the resource came with the third id issued
C26_Witness ==
  /\ last.op = "addResource"
  /\ nextId = 4
  /\ Len(tabs) = 2
  /\ tabs[1].id = 1
  /\ tabs[2].id = 2
  /\ tabs[1].openedAt = 3
  /\ last.resources[1].id = 3

\* ---------------------------------------------------------------- C27
\* the last step was a click on an absolute web URL, in a document
WebUrlClicked == last.op = "link" /\ last.hadTab /\ IsWebUrl(Trim(last.href))

\* the URL the claim has handed on for a trimmed absolute web URL
HandedOn(trimmed) ==
  IF IsHttpUrl(trimmed) THEN trimmed ELSE << "https", ":" >> \o trimmed

\* C27: for an href that is an absolute web URL, the URL given to openUrl or
\* to openExternal is the trimmed href when it has the scheme http or https
\* in any letter case, and "https:" followed by the trimmed href when it
\* starts with "//"; nothing else is rewritten.
C27_WebUrlHandedOnAsWritten ==
  WebUrlClicked =>
    /\ last.call.api \in { "openUrl", "openExternal" }
    /\ last.call.url = HandedOn(Trim(last.href))

\* C27 (the part the code keeps): the same for a scheme written in lower
\* case and for a protocol-relative href.
C27_LowerCaseHandedOnAsWritten ==
  (WebUrlClicked /\ Trim(last.href)[1] \in { "http", "https", "/" }) =>
    /\ last.call.api \in { "openUrl", "openExternal" }
    /\ last.call.url = HandedOn(Trim(last.href))

\* a protocol-relative link to an image was clicked and went to the browser
\* with "https:" put in front
C27_ProtocolRelativeReached ==
  /\ WebUrlClicked
  /\ last.href = << "/", "/", "h", "/", "img", ".", "png" >>
  /\ last.call = [api |-> "openExternal",
                  url |-> << "https", ":", "/", "/", "h", "/", "img", ".", "png" >>]

\* ---------------------------------------------------------------- C28
\* the path part of an href: the text before its query and its fragment
PathPart(href) == BeforeFirst(BeforeFirst(href, "#"), "?")

\* the step resolves the openReference call of a click in a file document
FileReferenceResolved ==
  /\ inflight # <<>>
  /\ inflight[1].api = "openReference"
  /\ inflight[1].origin = "file"
  /\ inflight' = <<>>
  /\ last'.op = "addResource"

\* C28: in a file document, the file that is read for a relative markdown
\* link is the path part of the href resolved against the base directory:
\* a query or a fragment of the href changes neither the path that is read
\* nor the tab it is upserted into.
C28_FragmentDoesNotChangeFile ==
  [][ FileReferenceResolved =>
        /\ Arrived.path = pathResolve(inflight[1].base, PathPart(inflight[1].href))
        /\ \E k \in 1..Len(tabs') :
             tabs'[k].path = pathResolve(inflight[1].base, PathPart(inflight[1].href)) ]_vars

\* C28 (the part the code keeps): the same for an href that has neither a
\* query nor a fragment.
C28_PlainHrefReadsResolvedPath ==
  [][ (FileReferenceResolved /\ PathPart(inflight[1].href) = inflight[1].href) =>
        /\ Arrived.path = pathResolve(inflight[1].base, inflight[1].href)
        /\ \E k \in 1..Len(tabs') :
             tabs'[k].path = pathResolve(inflight[1].base, inflight[1].href) ]_vars

\* notes.md was followed from /docs/a.md and /docs/notes.md is a tab
C28_PlainHrefReached ==
  /\ last.op = "addResource"
  /\ Len(tabs) = 2
  /\ tabs[1].path = << <<>>, << "docs" >>, << "a", ".", "md" >> >>
  /\ tabs[2].path = DocsNotes

\* ---------------------------------------------------------------- C29
\* the step applies the files of a selection, all of which were read
SelectionApplied ==
  /\ last'.op = "addResource"
  /\ \A i \in 1..Len(last'.resources) : last'.resources[i].kind = "file"

\* the position the file of a selection has in ts (0 when it has none)
PositionIn(ts, r) ==
  IF PositionsOf(ts, r) = {} THEN 0 ELSE CHOOSE k \in PositionsOf(ts, r) : TRUE

\* every file of the selection is in the collection with what was read, the
\* entries that were there keep their places, and the files that are new
\* stand behind them in the order of the selection
UpsertedInSelectionOrder ==
  LET list == last'.resources
  IN /\ \A i \in 1..Len(list) :
          /\ PositionIn(tabs', list[i]) > 0
          /\ tabs'[PositionIn(tabs', list[i])].content = list[i].content
          /\ tabs'[PositionIn(tabs', list[i])].openedAt = list[i].openedAt
     /\ \A k \in 1..Len(tabs) : Identity(tabs'[k]) = Identity(tabs[k])
     /\ \A i, j \in 1..Len(list) :
          (i < j /\ PositionIn(tabs, list[i]) = 0 /\ PositionIn(tabs, list[j]) = 0) =>
             PositionIn(tabs', list[i]) < PositionIn(tabs', list[j])
     /\ Len(tabs') = Len(tabs)
          + Cardinality({ i \in 1..Len(list) : PositionIn(tabs, list[i]) = 0 })

\* a failure leaves the store as it was and shows its one message
NothingApplied ==
  /\ tabs' = tabs
  /\ activeId' = activeId
  /\ status' = last'.message

\* C29 (the part the code keeps): the files of a selection are upserted in
\* the order of the selection when all were read, and none of them is when
\* the read of one failed: the store is as before and one message is shown.
C29_AllOrNothing ==
  [][ /\ SelectionApplied => UpsertedInSelectionOrder
      /\ last'.op = "error" => NothingApplied ]_vars

\* C29: a selection whose files were all read is upserted in the order of
\* the selection and its last file becomes the active tab; a selection with
\* a file that could not be read upserts nothing, leaves the store unchanged
\* and shows a single message.
C29_DialogAllOrNothing ==
  [][ /\ SelectionApplied =>
           /\ UpsertedInSelectionOrder
           /\ activeId' = tabs'[PositionIn(tabs', LastApplied)].id
      /\ last'.op = "error" => NothingApplied ]_vars

\* two files were selected and both are tabs, in the order of the selection,
\* the second of them active
C29_BothOpened ==
  /\ last.op = "addResource"
  /\ Len(last.resources) = 2
  /\ Len(tabs) = 2
  /\ tabs[1] = last.resources[1]
  /\ tabs[2] = last.resources[2]
  /\ activeId = tabs[2].id

====
